---- MODULE Spec2Model ----
(***************************************************************************)
(* Model of server/index.ts: the startup routine that assembles the        *)
(* Express pipeline and brings up the listener, and the per-request        *)
(* pipeline (body parsers, request observer with its res.json wrapper,     *)
(* application routes, error-handling middleware, static/dev collaborator).*)
(*                                                                         *)
(* Three specifications share the variables:                               *)
(*   StartupSpec  the module's top-level code and the async startup        *)
(*                routine, up to and including the listener's retries;     *)
(*   Spec         one request travelling through the assembled pipeline of *)
(*                a server that is already listening;                      *)
(*   ConcSpec     several requests in flight at once through the request   *)
(*                observer, their steps interleaved.                       *)
(***************************************************************************)
EXTENDS Integers, Sequences, FiniteSets, TLC

VARIABLES
    \* ---- startup and listener (process-wide) ----
    startPc,        \* position of the startup code
    env,            \* app.get("env")
    installed,      \* the layers app.use()/registerRoutes have installed, in order
    calls,          \* how often each collaborator was called
    errorHandlers,  \* number of 'error' listeners on server
    attempts,       \* number of server.listen calls issued
    inflight,       \* a listen call whose outcome has not been delivered yet
    timers,         \* pending setTimeout callbacks
    listening,      \* server is bound
    listeningCbs,   \* once('listening') callbacks registered and not yet fired
    lastError,      \* code of the last 'error' event ("none" before any)
    startLog,       \* console/log lines of the listener, in order
    closeCalls,     \* number of server.close() calls
    portHolder,     \* who holds (host, port): "free", "other", "self"
    permitted,      \* whether this process may bind the port at all
    \* ---- one request ----
    req,            \* the inbound request (method, path, headers, body validity)
    pc,             \* where the request is in the pipeline
    closure,        \* the observer's per-request closure: start, path, requestId,
                    \* capturedJsonResponse, and whether res.json is wrapped
    res,            \* the response object: statusCode, headersSent, body, ended
    finishFired,    \* the response's 'finish' event has been emitted
    err,            \* the error travelling through the pipeline, if any
    ran,            \* the layers that ran for this request, in order
    out,            \* everything written for this request: log(), console.log,
                    \* console.error, in order
    hist,           \* bookkeeping for the properties: call counts of res.json,
                    \* captures, throws
    crashed,        \* an exception escaped an event handler (uncaught)
    \* ---- several requests in flight ----
    clock,          \* Date.now()
    conns,          \* per request: the request, its position, its response object
    cells,          \* the storage of the observer's locals, per middleware call
    own,            \* per request: what its own events wrote (start, path,
                    \* requestId, body of its res.json call) and when it finished
    lines           \* the lines passed to log(), in order, with the request
                    \* whose 'finish' handler wrote them

startupVars == <<startPc, env, installed, calls, errorHandlers, attempts, inflight,
                 timers, listening, listeningCbs, lastError, startLog, closeCalls,
                 portHolder, permitted>>
requestVars == <<req, pc, closure, res, finishFired, err, ran, out, hist, crashed>>
concVars == <<clock, conns, cells, own, lines>>
vars == <<startPc, env, installed, calls, errorHandlers, attempts, inflight,
          timers, listening, listeningCbs, lastError, startLog, closeCalls,
          portHolder, permitted,
          req, pc, closure, res, finishFired, err, ran, out, hist, crashed,
          clock, conns, cells, own, lines>>

(***************************************************************************)
(* Bounds                                                                  *)
(***************************************************************************)
\* listen calls after which the model stops following further retries
MaxAttempts == 4
\* requests in flight at once
NumRequests == 2
\* milliseconds the clock advances while the requests are in flight
MaxClock == 2
\* number of filler characters of the long API path: with it the assembled
\* line of a GET request is exactly LineCap characters long
PadLen == 80

(***************************************************************************)
(* Program constants                                                       *)
(***************************************************************************)
\* logLine.length > 100
LineCap == 100
\* logLine.slice(0, 99)
KeepLen == 99
\* err.status || err.statusCode || 500
DefaultStatus == 500

(***************************************************************************)
(* Startup: the pipeline is assembled in source order                      *)
(***************************************************************************)
StaticLayer(e) == IF e = "development" THEN "setupVite" ELSE "serveStatic"

\* the pipeline a finished startup has installed
Pipeline(e) == <<"json", "urlencoded", "observer", "routes", "normalizer",
                 StaticLayer(e)>>

NoRequest == [method |-> "", path |-> "", requestId |-> <<>>, badBody |-> "none"]
NoClosure == [entered |-> FALSE, start |-> 0, path |-> "", requestId |-> <<>>,
              capturedJsonResponse |-> [t |-> "undefined"]]
\* wire: what has been sent to the client; wrapped: res.json is the observer's wrapper
NoResponse == [statusCode |-> 200, headersSent |-> FALSE, ended |-> FALSE,
               wire |-> <<>>, wrapped |-> FALSE, destroyed |-> FALSE]
NoHist == [captures |-> 0, sendsOnSent |-> 0, normalizerRuns |-> 0,
           normalizerThrew |-> FALSE, normalizerArgs |-> <<>>,
           capturedRead |-> FALSE, captureAfterRead |-> FALSE, lastJson |-> <<>>]

RequestIdle ==
    /\ req = NoRequest
    /\ pc = "idle"
    /\ closure = NoClosure
    /\ res = NoResponse
    /\ finishFired = FALSE
    /\ err = <<>>
    /\ ran = <<>>
    /\ out = <<>>
    /\ hist = NoHist
    /\ crashed = FALSE

\* no request of the interleaved specification exists
ConcIdle ==
    /\ clock = 0
    /\ conns = <<>>
    /\ cells = <<>>
    /\ own = <<>>
    /\ lines = <<>>

StartupInit ==
    /\ ConcIdle
    /\ startPc = "bodyParsers"
    /\ env \in {"development", "production"}
    /\ installed = <<>>
    /\ calls = [registerRoutes |-> 0, setupVite |-> 0, serveStatic |-> 0]
    /\ errorHandlers = 0
    /\ attempts = 0
    /\ inflight = FALSE
    /\ timers = 0
    /\ listening = FALSE
    /\ listeningCbs = 0
    /\ lastError = "none"
    /\ startLog = <<>>
    /\ closeCalls = 0
    /\ portHolder \in {"free", "other"}
    /\ permitted \in BOOLEAN
    /\ RequestIdle

\* app.use(express.json(...)); app.use(express.urlencoded(...))
UseBodyParsers ==
    /\ startPc = "bodyParsers"
    /\ installed' = installed \o <<"json", "urlencoded">>
    /\ startPc' = "observer"
    /\ UNCHANGED <<env, calls, errorHandlers, attempts, inflight, timers, listening,
                   listeningCbs, lastError, startLog, closeCalls, portHolder, permitted>>
    /\ UNCHANGED <<requestVars, concVars>>

\* app.use((req, res, next) => { ... })
UseObserver ==
    /\ startPc = "observer"
    /\ installed' = Append(installed, "observer")
    /\ startPc' = "registerRoutes"
    /\ UNCHANGED <<env, calls, errorHandlers, attempts, inflight, timers, listening,
                   listeningCbs, lastError, startLog, closeCalls, portHolder, permitted>>
    /\ UNCHANGED <<requestVars, concVars>>

\* const server = await registerRoutes(app)
RegisterRoutes ==
    /\ startPc = "registerRoutes"
    /\ installed' = Append(installed, "routes")
    /\ calls' = [calls EXCEPT !.registerRoutes = @ + 1]
    /\ startPc' = "normalizer"
    /\ UNCHANGED <<env, errorHandlers, attempts, inflight, timers, listening,
                   listeningCbs, lastError, startLog, closeCalls, portHolder, permitted>>
    /\ UNCHANGED <<requestVars, concVars>>

\* app.use((err, _req, res, _next) => { ... })
UseNormalizer ==
    /\ startPc = "normalizer"
    /\ installed' = Append(installed, "normalizer")
    /\ startPc' = "static"
    /\ UNCHANGED <<env, calls, errorHandlers, attempts, inflight, timers, listening,
                   listeningCbs, lastError, startLog, closeCalls, portHolder, permitted>>
    /\ UNCHANGED <<requestVars, concVars>>

\* if (app.get("env") === "development") await setupVite(app, server)
\* else serveStatic(app)
SetupStatic ==
    /\ startPc = "static"
    /\ \/ /\ env = "development"
          /\ calls' = [calls EXCEPT !.setupVite = @ + 1]
       \/ /\ env # "development"
          /\ calls' = [calls EXCEPT !.serveStatic = @ + 1]
    /\ installed' = Append(installed, StaticLayer(env))
    /\ startPc' = "onError"
    /\ UNCHANGED <<env, errorHandlers, attempts, inflight, timers, listening,
                   listeningCbs, lastError, startLog, closeCalls, portHolder, permitted>>
    /\ UNCHANGED <<requestVars, concVars>>

\* server.on('error', (err) => { ... })
RegisterOnError ==
    /\ startPc = "onError"
    /\ errorHandlers' = errorHandlers + 1
    /\ startPc' = "listen"
    /\ UNCHANGED <<env, installed, calls, attempts, inflight, timers, listening,
                   listeningCbs, lastError, startLog, closeCalls, portHolder, permitted>>
    /\ UNCHANGED <<requestVars, concVars>>

(***************************************************************************)
(* Listener                                                                *)
(***************************************************************************)
\* server.listen(port, "0.0.0.0", cb): cb becomes a once('listening') listener
\* and the bind is started; its outcome is delivered as an event later.
ListenCall ==
    /\ attempts' = attempts + 1
    /\ listeningCbs' = listeningCbs + 1
    /\ inflight' = TRUE

\* a startup routine that calls server.listen before the static collaborator
ListenBeforeStatic ==
    /\ startPc = "static"
    /\ attempts = 0
    /\ ListenCall
    /\ UNCHANGED <<startPc, env, installed, calls, errorHandlers, timers, listening,
                   lastError, startLog, closeCalls, portHolder, permitted>>
    /\ UNCHANGED <<requestVars, concVars>>

\* the initial server.listen(port, "0.0.0.0", () => log(...)) of the startup routine
Listen ==
    /\ startPc = "listen"
    /\ ListenCall
    /\ startPc' = "started"
    /\ UNCHANGED <<env, installed, calls, errorHandlers, timers, listening,
                   lastError, startLog, closeCalls, portHolder, permitted>>
    /\ UNCHANGED <<requestVars, concVars>>

\* what the bind of (host, port) yields now
BindOutcome ==
    IF ~permitted THEN "EACCES"
    ELSE IF portHolder = "other" THEN "EADDRINUSE"
    ELSE "ok"

RECURSIVE ServingLines(_)
ServingLines(n) == IF n = 0 THEN <<>> ELSE <<"serving on port">> \o ServingLines(n - 1)

\* 'listening' is emitted: every registered once-callback runs log(`serving on port`)
OnListening ==
    /\ inflight
    /\ BindOutcome = "ok"
    /\ inflight' = FALSE
    /\ listening' = TRUE
    /\ portHolder' = "self"
    /\ startLog' = startLog \o ServingLines(listeningCbs)
    /\ listeningCbs' = 0
    /\ UNCHANGED <<startPc, env, installed, calls, errorHandlers, attempts, timers,
                   lastError, closeCalls, permitted>>
    /\ UNCHANGED <<requestVars, concVars>>

\* an 'error' handler without the test of err.code
SchedulesRetryAlways(code) == TRUE

\* whether the 'error' handler schedules the retry timer for this error code
SchedulesRetry(code) == code = "EADDRINUSE"

\* 'error' is emitted and the handler registered by server.on('error') runs
OnError ==
    /\ inflight
    /\ BindOutcome # "ok"
    /\ errorHandlers > 0
    /\ inflight' = FALSE
    /\ lastError' = BindOutcome
    /\ \/ /\ SchedulesRetry(BindOutcome)
          /\ startLog' = Append(startLog, "Port is busy, retrying in 1 second...")
          /\ timers' = timers + 1
       \/ /\ ~SchedulesRetry(BindOutcome)
          /\ startLog' = Append(startLog, "Server error:")
          /\ timers' = timers
    /\ UNCHANGED <<startPc, env, installed, calls, errorHandlers, attempts, listening,
                   listeningCbs, closeCalls, portHolder, permitted>>
    /\ UNCHANGED <<requestVars, concVars>>

\* the setTimeout callback: server.close(); server.listen(port, "0.0.0.0", cb)
RetryTimer ==
    /\ timers > 0
    /\ attempts < MaxAttempts
    /\ timers' = timers - 1
    /\ closeCalls' = closeCalls + 1
    /\ listening' = FALSE
    /\ portHolder' = IF portHolder = "self" THEN "free" ELSE portHolder
    /\ ListenCall
    /\ UNCHANGED <<startPc, env, installed, calls, errorHandlers, lastError,
                   startLog, permitted>>
    /\ UNCHANGED <<requestVars, concVars>>

\* the other process releases or takes the port
OtherProcess ==
    /\ \/ /\ portHolder = "other"
          /\ portHolder' = "free"
       \/ /\ portHolder = "free"
          /\ portHolder' = "other"
    /\ UNCHANGED <<startPc, env, installed, calls, errorHandlers, attempts, inflight,
                   timers, listening, listeningCbs, lastError, startLog, closeCalls,
                   permitted>>
    /\ UNCHANGED <<requestVars, concVars>>

\* the bind starts or stops failing for a reason other than address-in-use
PermissionChange ==
    /\ permitted' = ~permitted
    /\ UNCHANGED <<startPc, env, installed, calls, errorHandlers, attempts, inflight,
                   timers, listening, listeningCbs, lastError, startLog, closeCalls,
                   portHolder>>
    /\ UNCHANGED <<requestVars, concVars>>

StartupNext ==
    \/ UseBodyParsers
    \/ UseObserver
    \/ RegisterRoutes
    \/ UseNormalizer
    \/ SetupStatic
    \/ RegisterOnError
    \/ Listen
    \/ OnListening
    \/ OnError
    \/ RetryTimer
    \/ OtherProcess
    \/ PermissionChange

StartupSpec == StartupInit /\ [][StartupNext]_vars

(***************************************************************************)
(* JavaScript values and the conversions the handlers apply to them        *)
(***************************************************************************)
\* an optional value (a header, a field of an error): <<>> is undefined, <<v>> is v
Absent == <<>>
Some(v) == <<v>>

\* JavaScript values passed to res.json, tagged by their type
Undefined == [t |-> "undefined"]
JsNull == [t |-> "null"]
JsBool(b) == [t |-> "bool", b |-> b]
JsNum(n) == [t |-> "num", n |-> n]
JsStr(s) == [t |-> "str", s |-> s]
\* an object with one own property
JsObj(k, v) == [t |-> "obj", k |-> k, v |-> v]
\* an object that refers to itself: JSON.stringify throws on it
JsCircular == [t |-> "circular"]

\* ToBoolean(v), as `if (v)` and `a || b` apply it
Truthy(v) ==
    CASE v.t = "undefined" -> FALSE
      [] v.t = "null" -> FALSE
      [] v.t = "bool" -> v.b
      [] v.t = "num" -> v.n # 0
      [] v.t = "str" -> v.s # ""
      [] OTHER -> TRUE

\* whether JSON.stringify(v) returns rather than throws
RECURSIVE Serializable(_)
Serializable(v) ==
    CASE v.t = "circular" -> FALSE
      [] v.t = "obj" -> Serializable(v.v)
      [] OTHER -> TRUE

Digits == "0123456789"

\* String(n) for a non-negative integer
RECURSIVE NumToStr(_)
NumToStr(n) ==
    IF n < 10 THEN SubSeq(Digits, n + 1, n + 1)
    ELSE NumToStr(n \div 10) \o SubSeq(Digits, (n % 10) + 1, (n % 10) + 1)

Quote == "\""

\* JSON.stringify(v) for a serializable, defined v (the strings of the model
\* hold no character that JSON escapes)
RECURSIVE Stringify(_)
Stringify(v) ==
    CASE v.t = "null" -> "null"
      [] v.t = "bool" -> IF v.b THEN "true" ELSE "false"
      [] v.t = "num" -> NumToStr(v.n)
      [] v.t = "str" -> Quote \o v.s \o Quote
      [] v.t = "obj" -> "{" \o Quote \o v.k \o Quote \o ":" \o Stringify(v.v) \o "}"

\* s.startsWith(p)
StartsWith(s, p) == Len(s) >= Len(p) /\ SubSeq(s, 1, Len(p)) = p

\* s.includes(p)
Includes(s, p) == \E i \in 1..(Len(s) - Len(p) + 1) : SubSeq(s, i, i + Len(p) - 1) = p

EndsWith(s, p) == Len(s) >= Len(p) /\ SubSeq(s, Len(s) - Len(p) + 1, Len(s)) = p

RECURSIVE Repeat(_, _)
Repeat(c, n) == IF n = 0 THEN "" ELSE c \o Repeat(c, n - 1)

\* stands for the one-character ellipsis U+2026 the source appends
Ellipsis == "~"

(***************************************************************************)
(* Inputs of a request                                                     *)
(***************************************************************************)
ApiPrefix == "/api"
SickFood == "/api/amenities/sick-food"

\* "GET <LongApiPath> 200 in 0ms" is as long as "GET  200 in 0ms" plus the path
LongApiPath == "/api/" \o Repeat("x", PadLen)

Methods == {"GET", "POST"}
Paths == {"/api/widgets", SickFood, "/assets" \o SickFood, "/index.html", LongApiPath}
\* the x-request-id header: not sent, sent empty, sent with a value
RequestIds == {Absent, Some(""), Some("abc123")}
\* which body parser rejects the request body, if any
BadBodies == {"none", "json", "urlencoded"}

Requests == [method : Methods, path : Paths, requestId : RequestIds, badBody : BadBodies]

\* what a route handler may pass to res.json
Bodies == {Undefined, JsNull, JsBool(FALSE), JsNum(0), JsStr(""), JsObj("id", JsNum(7)),
           JsCircular}
HandlerStatuses == {200, 201}

Stack == "at handler (routes.ts:1:1)"
\* error values of unknown shape: each of status, statusCode and message may be
\* missing, falsy or set
Errors == [status : {Absent, Some(0), Some(404)},
           statusCode : {Absent, Some(503)},
           message : {Absent, Some(""), Some("not found")},
           stack : {Some(Stack)}]
\* what a body parser raises on a malformed body
ParseError == [status |-> Some(400), statusCode |-> Some(400),
               message |-> Some("Unexpected token"), stack |-> Some(Stack)]
\* what the original res.json raises
HeadersSentError == [status |-> Absent, statusCode |-> Absent,
                     message |-> Some("Cannot set headers after they are sent to the client"),
                     stack |-> Some(Stack)]
CircularError == [status |-> Absent, statusCode |-> Absent,
                  message |-> Some("Converting circular structure to JSON"),
                  stack |-> Some(Stack)]

\* Date.now() at request entry, and the elapsed times a response may take
StartTime == 1000
Durations == {0, 12}

(***************************************************************************)
(* Express dispatch over the installed layers                              *)
(***************************************************************************)
\* a middleware of four parameters only runs for an error, the others only without
IsErrorLayer(l) == l = "normalizer"

IndexOf(l) == CHOOSE i \in DOMAIN installed : installed[i] = l

\* next() / next(err) called by layer l: the next layer of the matching kind,
\* else Express's own final handler
Dispatch(l, hasErr) ==
    LET later == {j \in DOMAIN installed :
                     j > IndexOf(l) /\ IsErrorLayer(installed[j]) = hasErr}
    IN IF later = {} THEN "final"
       ELSE installed[CHOOSE j \in later : \A k \in later : j <= k]

Ran(l) == Append(ran, [layer |-> l, errBy |-> IF err = <<>> THEN "" ELSE err[1].by])

Raise(e, l) == <<[value |-> e, by |-> l]>>

Alive == listening /\ ~crashed

(***************************************************************************)
(* The response object                                                     *)
(***************************************************************************)
\* Express's own res.json(body): it throws on a response whose headers are sent
\* and on a body JSON.stringify rejects, else it sends the body and returns res
OriginalJson(r, body, by) ==
    LET throws == r.headersSent \/ ~Serializable(body)
        text == IF body = Undefined THEN "" ELSE Stringify(body)
    IN [res |-> IF throws THEN r
                ELSE [r EXCEPT !.headersSent = TRUE, !.ended = TRUE,
                               !.wire = Append(@, [status |-> r.statusCode,
                                                   body |-> text, by |-> by])],
        threw |-> throws,
        error |-> IF r.headersSent THEN HeadersSentError ELSE CircularError,
        returned |-> IF throws THEN "throws" ELSE "res"]

\* a variant of the wrapper without the return statement
WrappedJsonNoReturn(r, c, body, by) ==
    LET o == OriginalJson(r, body, by)
    IN [res |-> o.res, threw |-> o.threw, error |-> o.error,
        returned |-> IF o.threw THEN "throws" ELSE "undefined",
        closure |-> [c EXCEPT !.capturedJsonResponse = body]]

\* res.json = function (bodyJson, ...args) { capturedJsonResponse = bodyJson;
\*                                           return originalResJson.apply(res, ...) }
WrappedJson(r, c, body, by) ==
    LET o == OriginalJson(r, body, by)
    IN [res |-> o.res, threw |-> o.threw, error |-> o.error, returned |-> o.returned,
        closure |-> [c EXCEPT !.capturedJsonResponse = body]]

\* res.json(body) as the request sees it: the observer's wrapper when it is
\* installed on this response, else the original
JsonCall(r, c, h, body, by) ==
    LET o == OriginalJson(r, body, by)
        w == IF r.wrapped THEN WrappedJson(r, c, body, by)
             ELSE [res |-> o.res, threw |-> o.threw, error |-> o.error,
                   returned |-> o.returned, closure |-> c]
    IN [res |-> w.res,
        closure |-> w.closure,
        hist |-> [h EXCEPT !.captures = IF r.wrapped THEN @ + 1 ELSE @,
                           !.captureAfterRead = @ \/ (r.wrapped /\ h.capturedRead),
                           !.sendsOnSent = IF r.headersSent THEN @ + 1 ELSE @,
                           !.lastJson = <<[before |-> r, body |-> body, by |-> by,
                                           after |-> w.res, returned |-> w.returned,
                                           threw |-> w.threw]>>],
        threw |-> w.threw,
        error |-> w.error]

\* res.status(code).end(): a response without a JSON body
EndCall(r, code, text, by) ==
    [r EXCEPT !.statusCode = code, !.headersSent = TRUE, !.ended = TRUE,
              !.wire = Append(@, [status |-> code, body |-> text, by |-> by])]

(***************************************************************************)
(* A request enters the pipeline                                           *)
(***************************************************************************)
\* the state of a server whose first listen call succeeded
ServerBound ==
    /\ startPc = "started"
    /\ env \in {"development", "production"}
    /\ installed = Pipeline(env)
    /\ calls = [registerRoutes |-> 1,
                setupVite |-> IF env = "development" THEN 1 ELSE 0,
                serveStatic |-> IF env = "development" THEN 0 ELSE 1]
    /\ errorHandlers = 1
    /\ attempts = 1
    /\ inflight = FALSE
    /\ timers = 0
    /\ listening = TRUE
    /\ listeningCbs = 0
    /\ lastError = "none"
    /\ startLog = <<"serving on port">>
    /\ closeCalls = 0
    /\ portHolder = "self"
    /\ permitted = TRUE

Init ==
    /\ ServerBound
    /\ RequestIdle
    /\ ConcIdle

Arrive ==
    /\ Alive
    /\ pc = "idle"
    /\ req' \in Requests
    /\ pc' = installed[1]
    /\ UNCHANGED <<closure, res, finishFired, err, ran, out, hist, crashed>>
    /\ UNCHANGED <<startupVars, concVars>>

\* express.json / express.urlencoded: a body the parser rejects is raised as an error
BodyParser(l) ==
    /\ Alive
    /\ pc = l
    /\ ran' = Ran(l)
    /\ \/ /\ req.badBody = l
          /\ err' = Raise(ParseError, l)
          /\ pc' = Dispatch(l, TRUE)
       \/ /\ req.badBody # l
          /\ err' = err
          /\ pc' = Dispatch(l, FALSE)
    /\ UNCHANGED <<req, closure, res, finishFired, out, hist, crashed>>
    /\ UNCHANGED <<startupVars, concVars>>

(***************************************************************************)
(* Request observer and its res.json wrapper                               *)
(***************************************************************************)
\* path.includes('/api/amenities/sick-food')
LogsTrace(path) == Includes(path, SickFood)

\* path.startsWith("/api")
IsApi(path) == StartsWith(path, ApiPrefix)

\* if (capturedJsonResponse)
HasBody(captured) == Truthy(captured)

\* a variant that tests the header for presence: requestId !== undefined
HasRequestIdDefined(requestId) == requestId # Absent

\* if (requestId)
HasRequestId(requestId) == requestId # Absent /\ requestId[1] # ""

\* the line as built before the length check
AssembleLine(method, path, statusCode, duration, captured, requestId) ==
    method \o " " \o path \o " " \o NumToStr(statusCode) \o " in "
        \o NumToStr(duration) \o "ms"
        \o (IF HasBody(captured) THEN " :: " \o Stringify(captured) ELSE "")
        \o (IF HasRequestId(requestId) THEN " [" \o requestId[1] \o "]" ELSE "")

\* a variant that also cuts a line of exactly 100 characters: length >= 100
CapLineFrom100(line) ==
    IF Len(line) >= LineCap THEN SubSeq(line, 1, KeepLen) \o Ellipsis ELSE line

\* if (logLine.length > 100) logLine = logLine.slice(0, 99) + ellipsis
CapLine(line) ==
    IF Len(line) > LineCap THEN SubSeq(line, 1, KeepLen) \o Ellipsis ELSE line

TraceLine == [by |-> "observer", sink |-> "console.log", at |-> "entry",
              text |-> "[REQUEST-TRACE] Sick food request - Origin: undefined, User-Agent: undefined...",
              assembled |-> ""]

\* the middleware of app.use((req, res, next) => { ... }) up to next()
Observer ==
    /\ Alive
    /\ pc = "observer"
    /\ ran' = Ran("observer")
    /\ closure' = [entered |-> TRUE, start |-> StartTime, path |-> req.path,
                   requestId |-> req.requestId, capturedJsonResponse |-> Undefined]
    /\ out' = IF LogsTrace(req.path) THEN Append(out, TraceLine) ELSE out
    /\ res' = [res EXCEPT !.wrapped = TRUE]
    /\ pc' = Dispatch("observer", FALSE)
    /\ UNCHANGED <<req, finishFired, err, hist, crashed>>
    /\ UNCHANGED <<startupVars, concVars>>

\* the 'finish' event of the response, and the observer's handler for it
Finish ==
    /\ Alive
    /\ res.ended
    /\ ~finishFired
    /\ finishFired' = TRUE
    /\ \E d \in Durations :
          LET captured == closure.capturedJsonResponse
              line == AssembleLine(req.method, closure.path, res.statusCode, d,
                                   captured, closure.requestId)
          IN IF closure.entered /\ IsApi(closure.path)
             THEN /\ hist' = [hist EXCEPT !.capturedRead = TRUE]
                  /\ IF HasBody(captured) /\ ~Serializable(captured)
                     THEN /\ crashed' = TRUE
                          /\ out' = out
                     ELSE /\ crashed' = crashed
                          /\ out' = Append(out, [by |-> "observer", sink |-> "log",
                                                 at |-> "finish", text |-> CapLine(line),
                                                 assembled |-> line,
                                                 read |-> [statusCode |-> res.statusCode,
                                                           duration |-> d,
                                                           captured |-> captured]])
             ELSE UNCHANGED <<hist, crashed, out>>
    /\ UNCHANGED <<req, pc, closure, res, err, ran>>
    /\ UNCHANGED <<startupVars, concVars>>

(***************************************************************************)
(* Application routes (registered by registerRoutes): every use a handler  *)
(* can make of res and next                                                *)
(***************************************************************************)
\* res.status(code).json(body); a throw of res.json is caught by Express and
\* raised as the request's error
RouteJson ==
    /\ pc = "routes"
    /\ \E code \in HandlerStatuses, body \in Bodies :
          LET j == JsonCall([res EXCEPT !.statusCode = code], closure, hist, body, "routes")
          IN /\ res' = j.res
             /\ closure' = j.closure
             /\ hist' = j.hist
             /\ IF j.threw
                THEN /\ err' = Raise(j.error, "routes")
                     /\ pc' = Dispatch("routes", TRUE)
                ELSE /\ err' = err
                     /\ pc' = "routeSent"
    /\ UNCHANGED <<req, finishFired, out, crashed>>

\* try { res.json(body) } catch { res.status(500).end() } for a body that
\* JSON.stringify rejects
RouteRecovers ==
    /\ pc = "routes"
    /\ \E body \in {b \in Bodies : ~Serializable(b)} :
          LET j == JsonCall(res, closure, hist, body, "routes")
          IN /\ res' = EndCall(j.res, DefaultStatus, "", "routes")
             /\ closure' = j.closure
             /\ hist' = j.hist
    /\ pc' = "routeSent"
    /\ UNCHANGED <<req, finishFired, err, out, crashed>>

\* a response without a JSON body: res.status(204).end()
RouteEnd ==
    /\ pc = "routes"
    /\ res' = EndCall(res, 204, "", "routes")
    /\ pc' = "routeSent"
    /\ UNCHANGED <<req, closure, finishFired, err, out, hist, crashed>>

\* the handler never responds
RouteHangs ==
    /\ pc = "routes"
    /\ pc' = "hung"
    /\ UNCHANGED <<req, closure, res, finishFired, err, out, hist, crashed>>

\* next(err) or a throw before anything is sent
RouteFails ==
    /\ pc = "routes"
    /\ \E e \in Errors : err' = Raise(e, "routes")
    /\ pc' = Dispatch("routes", TRUE)
    /\ UNCHANGED <<req, closure, res, finishFired, out, hist, crashed>>

\* no route matches: next()
RouteFallsThrough ==
    /\ pc = "routes"
    /\ pc' = Dispatch("routes", FALSE)
    /\ UNCHANGED <<req, closure, res, finishFired, err, out, hist, crashed>>

Route ==
    /\ Alive
    /\ ran' = Ran("routes")
    /\ \/ RouteJson
       \/ RouteRecovers
       \/ RouteEnd
       \/ RouteHangs
       \/ RouteFails
       \/ RouteFallsThrough
    /\ UNCHANGED <<startupVars, concVars>>

\* a handler that has responded fails afterwards: next(err) or a rejected promise
\* forwarded to next
RouteFailsAfterSend ==
    /\ Alive
    /\ pc = "routeSent"
    /\ \E e \in Errors : err' = Raise(e, "routes")
    /\ pc' = Dispatch("routes", TRUE)
    /\ UNCHANGED <<req, closure, res, finishFired, ran, out, hist, crashed>>
    /\ UNCHANGED <<startupVars, concVars>>

(***************************************************************************)
(* Error-handling middleware                                               *)
(***************************************************************************)
\* a variant that looks at err.status alone
ResolveStatusOnly(e) ==
    IF e.status # Absent /\ e.status[1] # 0 THEN e.status[1] ELSE DefaultStatus

\* err.status || err.statusCode || 500
ResolveStatus(e) ==
    IF e.status # Absent /\ e.status[1] # 0 THEN e.status[1]
    ELSE IF e.statusCode # Absent /\ e.statusCode[1] # 0 THEN e.statusCode[1]
    ELSE DefaultStatus

\* err.message || "Internal Server Error"
ResolveMessage(e) ==
    IF e.message # Absent /\ e.message[1] # "" THEN e.message[1]
    ELSE "Internal Server Error"

\* { message }
NormalizerBody(e) == JsObj("message", JsStr(ResolveMessage(e)))

\* app.use((err, _req, res, _next) => { ... }): a throw of res.json leaves the
\* middleware and Express raises it to the layers after it
Normalizer ==
    /\ Alive
    /\ pc = "normalizer"
    /\ err # <<>>
    /\ ran' = Ran("normalizer")
    /\ LET e == err[1].value
           status == ResolveStatus(e)
           body == NormalizerBody(e)
           j == JsonCall([res EXCEPT !.statusCode = status], closure,
                         [hist EXCEPT !.normalizerRuns = @ + 1,
                                      !.normalizerArgs =
                                          <<[error |-> e, status |-> status,
                                             body |-> body]>>],
                         body, "normalizer")
       IN /\ out' = Append(out, [by |-> "normalizer", sink |-> "console.error",
                                 at |-> "error", text |-> "Server error:",
                                 assembled |-> "",
                                 diag |-> [status |-> status, message |-> e.message,
                                           stack |-> e.stack, url |-> req.path,
                                           method |-> req.method]])
          /\ res' = j.res
          /\ closure' = j.closure
          /\ IF j.threw
             THEN /\ hist' = [j.hist EXCEPT !.normalizerThrew = TRUE]
                  /\ err' = Raise(j.error, "normalizer")
                  /\ pc' = Dispatch("normalizer", TRUE)
             ELSE /\ hist' = j.hist
                  /\ err' = err
                  /\ pc' = "done"
    /\ UNCHANGED <<req, finishFired, crashed>>
    /\ UNCHANGED <<startupVars, concVars>>

(***************************************************************************)
(* Static/dev-asset collaborator and Express's final handler               *)
(***************************************************************************)
\* what the collaborator's catch-all may raise
StaticErrors == {e \in Errors : e.message = Some("not found") /\ e.statusCode = Absent}

\* the catch-all of setupVite / serveStatic: it serves the client application
\* or raises an error
Static ==
    /\ Alive
    /\ pc = StaticLayer(env)
    /\ ran' = Ran(StaticLayer(env))
    /\ \/ /\ res' = EndCall(res, 200, "<!DOCTYPE html>", StaticLayer(env))
          /\ err' = err
          /\ pc' = "done"
       \/ /\ \E e \in StaticErrors : err' = Raise(e, StaticLayer(env))
          /\ res' = res
          /\ pc' = Dispatch(StaticLayer(env), TRUE)
    /\ UNCHANGED <<req, closure, finishFired, out, hist, crashed>>
    /\ UNCHANGED <<startupVars, concVars>>

\* the status Express's final handler answers an error with
FinalStatus(e) ==
    IF e.status # Absent /\ e.status[1] >= 400 /\ e.status[1] < 600 THEN e.status[1]
    ELSE IF e.statusCode # Absent /\ e.statusCode[1] >= 400 /\ e.statusCode[1] < 600
         THEN e.statusCode[1]
    ELSE DefaultStatus

\* an error no installed error-handling layer took: Express's final handler
\* answers it (with the stack outside production), or drops the connection
\* when the response has started
FinalHandler ==
    /\ Alive
    /\ pc = "final"
    /\ err # <<>>
    /\ ran' = Ran("final")
    /\ \/ /\ ~res.headersSent
          /\ res' = EndCall(res, FinalStatus(err[1].value),
                            IF env = "production" THEN "<pre>Error</pre>"
                            ELSE "<pre>" \o err[1].value.stack[1] \o "</pre>",
                            "final")
       \/ /\ res.headersSent
          /\ res' = [res EXCEPT !.destroyed = TRUE]
    /\ pc' = "done"
    /\ UNCHANGED <<req, closure, finishFired, err, out, hist, crashed>>
    /\ UNCHANGED <<startupVars, concVars>>

Next ==
    \/ Arrive
    \/ BodyParser("json")
    \/ BodyParser("urlencoded")
    \/ Observer
    \/ Route
    \/ RouteFailsAfterSend
    \/ Normalizer
    \/ Static
    \/ FinalHandler
    \/ Finish

Spec == Init /\ [][Next]_vars

(***************************************************************************)
(* Several requests in flight: the observer middleware, the route's        *)
(* res.json call and the 'finish' handler of each, interleaved             *)
(***************************************************************************)
ReqIds == 1 .. NumRequests

ConcRequests ==
    {[method |-> "GET", path |-> "/api/widgets", requestId |-> Some("abc123"),
      badBody |-> "none"],
     [method |-> "GET", path |-> "/api/widgets", requestId |-> Absent,
      badBody |-> "none"],
     [method |-> "GET", path |-> "/index.html", requestId |-> Absent,
      badBody |-> "none"]}
\* what a route answers: res.status(code).json(body)
ConcAnswers == {[code |-> 200, body |-> JsObj("id", JsNum(7))],
                [code |-> 201, body |-> JsStr("")]}

\* an observer whose start, path, capturedJsonResponse and requestId are
\* variables of the module, shared by all calls of the middleware
SharedCell(r) == 1

\* where the locals of the middleware call for request r live: const start,
\* const path, let capturedJsonResponse, const requestId are declared inside
\* the middleware function, so every call has its own
Cell(r) == r

NotFinished == 0

ConcInit ==
    /\ ServerBound
    /\ env = "production"
    /\ RequestIdle
    /\ clock = StartTime
    /\ conns \in [ReqIds -> {[req |-> q, pc |-> "observer", res |-> NoResponse] :
                                q \in ConcRequests}]
    /\ cells = [c \in ReqIds |-> NoClosure]
    /\ own = [r \in ReqIds |-> [closure |-> NoClosure, finishedAt |-> NotFinished]]
    /\ lines = <<>>

\* time passes
Tick ==
    /\ clock < StartTime + MaxClock
    /\ clock' = clock + 1
    /\ UNCHANGED <<conns, cells, own, lines>>
    /\ UNCHANGED <<startupVars, requestVars>>

\* the observer middleware runs for request r, up to next()
ConcObserver(r) ==
    /\ Alive
    /\ conns[r].pc = "observer"
    /\ LET c == [entered |-> TRUE, start |-> clock, path |-> conns[r].req.path,
                 requestId |-> conns[r].req.requestId,
                 capturedJsonResponse |-> Undefined]
       IN /\ cells' = [cells EXCEPT ![Cell(r)] = c]
          /\ own' = [own EXCEPT ![r].closure = c]
    /\ conns' = [conns EXCEPT ![r].pc = "routes", ![r].res.wrapped = TRUE]
    /\ UNCHANGED <<clock, lines>>
    /\ UNCHANGED <<startupVars, requestVars>>

\* the route of request r answers with res.status(code).json(body)
ConcRoute(r) ==
    /\ Alive
    /\ conns[r].pc = "routes"
    /\ \E a \in ConcAnswers :
          LET w == WrappedJson([conns[r].res EXCEPT !.statusCode = a.code],
                               cells[Cell(r)], a.body, "routes")
          IN /\ cells' = [cells EXCEPT ![Cell(r)] = w.closure]
             /\ own' = [own EXCEPT ![r].closure.capturedJsonResponse = a.body]
             /\ conns' = [conns EXCEPT ![r].pc = "routeSent", ![r].res = w.res]
    /\ UNCHANGED <<clock, lines>>
    /\ UNCHANGED <<startupVars, requestVars>>

\* the 'finish' event of the response of request r
ConcFinish(r) ==
    /\ Alive
    /\ conns[r].pc = "routeSent"
    /\ conns[r].res.ended
    /\ LET c == cells[Cell(r)]
           line == AssembleLine(conns[r].req.method, c.path, conns[r].res.statusCode,
                                clock - c.start, c.capturedJsonResponse, c.requestId)
       IN lines' = IF IsApi(c.path)
                   THEN Append(lines, [of |-> r, text |-> CapLine(line)])
                   ELSE lines
    /\ own' = [own EXCEPT ![r].finishedAt = clock]
    /\ conns' = [conns EXCEPT ![r].pc = "done"]
    /\ UNCHANGED <<clock, cells>>
    /\ UNCHANGED <<startupVars, requestVars>>

ConcNext ==
    \/ Tick
    \/ \E r \in ReqIds : ConcObserver(r)
    \/ \E r \in ReqIds : ConcRoute(r)
    \/ \E r \in ReqIds : ConcFinish(r)

ConcSpec == ConcInit /\ [][ConcNext]_vars

(***************************************************************************)
(* Properties                                                              *)
(***************************************************************************)
\* what the request observer has written for the request, in order
ObserverLines == SelectSeq(out, LAMBDA en : en.by = "observer")
\* the lines its 'finish' handler has passed to log()
FinishLines == SelectSeq(out, LAMBDA en : en.by = "observer" /\ en.at = "finish")

LastOf(seq) == seq[Len(seq)]

\* C1: the listener issues at most two listen calls in total, the initial one
\* and one retry; a second address-in-use failure schedules no further attempt.
C1_RetryBound ==
    /\ attempts <= 2
    /\ (attempts = 2 /\ ~inflight) => timers = 0

\* C2: when the retried attempt also finds the port occupied, the listener logs
\* a failure and is in a terminal state: unbound, no timer pending, nothing in
\* flight.
C2_TerminalOutcome ==
    (attempts >= 2 /\ ~inflight /\ ~listening /\ lastError = "EADDRINUSE")
        => /\ timers = 0
           /\ startLog # <<>>
           /\ LastOf(startLog) = "Server error:"

\* C3: for a request under the API prefix the observer writes nothing before
\* the response has finished, exactly one line once it has, holding the method,
\* the path and the status the client was sent, and nothing while the response
\* has not finished.
C3_ApiLoggedOnce ==
    (pc # "idle" /\ StartsWith(req.path, "/api")) =>
        /\ \A i \in DOMAIN ObserverLines : ObserverLines[i].at = "finish"
        /\ ~finishFired => Len(ObserverLines) = 0
        /\ finishFired =>
              /\ Len(ObserverLines) = 1
              /\ Includes(ObserverLines[1].text, req.method)
              /\ Includes(ObserverLines[1].text, req.path)
              /\ Includes(ObserverLines[1].text, NumToStr(res.wire[1].status))

\* C4: for a request whose path is not under the API prefix the observer
\* writes no line, neither at entry nor when the response finishes.
C4_NonApiSilent ==
    (pc # "idle" /\ ~StartsWith(req.path, "/api")) => Len(ObserverLines) = 0

\* C5: for a request that reached the error-handling middleware the client is
\* sent exactly one response, and no send was attempted on a response whose
\* headers were already sent.
C5_SingleResponse ==
    hist.normalizerRuns > 0 =>
        /\ Len(res.wire) = 1
        /\ hist.sendsOnSent = 0

\* the status and the message the middleware is to resolve when a falsy field
\* (0, the empty string) counts as missing
TruthyStatusOf(e) ==
    LET given == SelectSeq(<<e.status, e.statusCode>>,
                           LAMBDA f : f # <<>> /\ f # <<0>>)
    IN IF given = <<>> THEN 500 ELSE given[1][1]
TruthyMessageOf(e) ==
    IF e.message \in {<<>>, <<"">>} THEN "Internal Server Error" ELSE e.message[1]

\* the same when a field counts as present whenever it is defined
PresentStatusOf(e) ==
    LET given == SelectSeq(<<e.status, e.statusCode>>, LAMBDA f : f # <<>>)
    IN IF given = <<>> THEN 500 ELSE given[1][1]
PresentMessageOf(e) ==
    IF e.message = <<>> THEN "Internal Server Error" ELSE e.message[1]

\* the middleware passed status and {message: message}, and nothing else, to
\* res.status(...).json(...), and a response it sent carries exactly these
\* and none of the diagnostics
NormalizerResultIs(status, message) ==
    LET a == hist.normalizerArgs[1]
    IN /\ a.status = status
       /\ a.body = [t |-> "obj", k |-> "message", v |-> [t |-> "str", s |-> message]]
       /\ \A i \in DOMAIN res.wire :
             res.wire[i].by = "normalizer" =>
                 /\ res.wire[i].status = status
                 /\ res.wire[i].body = "{\"message\":\"" \o message \o "\"}"
                 /\ ~Includes(res.wire[i].body, a.error.stack[1])
                 /\ ~Includes(res.wire[i].body, req.path)
                 /\ ~Includes(res.wire[i].body, req.method)

\* C6 (as stated): the status is the error's status, else its statusCode, when
\* the field is present, else 500; the body is {message} with the error's
\* message when present, else the generic one.
C6_ResultWhenPresent ==
    hist.normalizerArgs # <<>> =>
        NormalizerResultIs(PresentStatusOf(hist.normalizerArgs[1].error),
                           PresentMessageOf(hist.normalizerArgs[1].error))

\* C6 (amended): the status is the error's status, else its statusCode, when
\* the field is present and not 0, else 500; the body is {message} with the
\* error's message when present and not empty, else the generic one; stack,
\* URL and method are not in the body.
C6_ResultWhenTruthy ==
    hist.normalizerArgs # <<>> =>
        NormalizerResultIs(TruthyStatusOf(hist.normalizerArgs[1].error),
                           TruthyMessageOf(hist.normalizerArgs[1].error))

\* the middleware answered an error whose status is 0 and whose message is
\* empty with its statusCode and the generic message
C6_Witness ==
    /\ hist.normalizerArgs # <<>>
    /\ hist.normalizerArgs[1].error.status = <<0>>
    /\ hist.normalizerArgs[1].error.statusCode = <<503>>
    /\ hist.normalizerArgs[1].error.message = <<"">>
    /\ Len(res.wire) = 1
    /\ res.wire[1] = [status |-> 503, by |-> "normalizer",
                      body |-> "{\"message\":\"Internal Server Error\"}"]

\* the components of the per-request pipeline that may raise an error
Components == {"json", "urlencoded", "observer", "routes", "setupVite", "serveStatic"}

\* C7: every error a component of the pipeline raises is handled by the
\* error-handling middleware and by no other handler.
C7_ErrorSink ==
    \A i \in DOMAIN ran : ran[i].errBy \in Components => ran[i].layer = "normalizer"

\* C8: the error-handling middleware does not throw, and nothing runs for the
\* request after it.
C8_NormalizerTerminal ==
    \A i \in DOMAIN ran :
        ran[i].layer = "normalizer" => (i = Len(ran) /\ ~hist.normalizerThrew)

\* the request carried a non-empty x-request-id
CarriesId == req.requestId # <<>> /\ req.requestId # <<"">>
IdSegment == " [" \o req.requestId[1] \o "]"

\* C9 (as stated): the emitted line of a request that carried a correlation id
\* ends with [id]; the emitted line of a request without one has no bracket
\* segment.
C9_IdSegmentEmitted ==
    \A i \in DOMAIN FinishLines :
        /\ CarriesId => EndsWith(FinishLines[i].text, IdSegment)
        /\ ~CarriesId => ~Includes(FinishLines[i].text, " [")

\* C9 (amended): the assembled line of a request that carried a non-empty
\* correlation id ends with [id], and so does the emitted line unless the
\* assembled line is longer than 100 characters, in which case the emitted line
\* is its first 99 characters and the ellipsis; the emitted line of a request
\* without the header, or with an empty one, has no bracket segment.
C9_IdSegmentUnlessCut ==
    \A i \in DOMAIN FinishLines :
        LET en == FinishLines[i]
        IN /\ CarriesId =>
                 /\ EndsWith(en.assembled, IdSegment)
                 /\ Len(en.assembled) <= 100 => EndsWith(en.text, IdSegment)
                 /\ Len(en.assembled) > 100 =>
                        en.text = SubSeq(en.assembled, 1, 99) \o Ellipsis
           /\ ~CarriesId => ~Includes(en.text, " [")

\* a request that carried the id abc123 and whose emitted line ends with it
C9_Witness ==
    /\ Len(FinishLines) = 1
    /\ req.requestId = <<"abc123">>
    /\ FinishLines[1].text = "GET /api/widgets 200 in 0ms [abc123]"

\* C10: the assembled line is "<METHOD> <PATH> <STATUS> in <DURATION>ms",
\* then " :: <serialized body>" exactly when a body was captured, whatever its
\* value, then " [<id>]" when a correlation id was supplied.
C10_BodySegment ==
    \A i \in DOMAIN FinishLines :
        LET en == FinishLines[i]
        IN en.assembled =
              req.method \o " " \o req.path \o " " \o NumToStr(en.read.statusCode)
                  \o " in " \o NumToStr(en.read.duration) \o "ms"
                  \o (IF en.read.captured # [t |-> "undefined"]
                      THEN " :: " \o Stringify(en.read.captured) ELSE "")
                  \o (IF CarriesId THEN IdSegment ELSE "")

\* the line of the example: POST /api/widgets, 201, 12ms, {"id":7}, abc123
C10_Example ==
    /\ req.method = "POST" /\ req.path = "/api/widgets"
    /\ Len(FinishLines) = 1
    /\ FinishLines[1].read = [statusCode |-> 201, duration |-> 12,
                              captured |-> [t |-> "obj", k |-> "id",
                                            v |-> [t |-> "num", n |-> 7]]]
    /\ FinishLines[1].assembled = "POST /api/widgets 201 in 12ms :: {\"id\":7} [abc123]"

C12_LoggingContained ==
    (finishFired /\ closure.entered /\ StartsWith(req.path, "/api")) =>
        /\ ~crashed
        /\ Len(FinishLines) = 1
        /\ FinishLines[1].read.captured = [t |-> "circular"] =>
               ~Includes(FinishLines[1].assembled, " :: ")

\* C13: a res.json call made through the observer's wrapper leaves the response
\* (status, headers sent, what is on the wire), its result (the returned value
\* or the throw) exactly as the original res.json applied to the same response
\* and body does, and the closure's capturedJsonResponse is the body passed.
C13_ProxyTransparent ==
    (hist.lastJson # <<>> /\ hist.lastJson[1].before.wrapped) =>
        LET call == hist.lastJson[1]
            plain == OriginalJson(call.before, call.body, call.by)
        IN /\ call.after = plain.res
           /\ call.returned = plain.returned
           /\ call.threw = plain.threw
           /\ closure.capturedJsonResponse = call.body

\* a handler answered 201 {"id":7} through the wrapper: the client got exactly
\* that, the call returned res, and the body was captured
C13_Witness ==
    /\ hist.lastJson # <<>>
    /\ hist.lastJson[1].before.wrapped
    /\ hist.lastJson[1].returned = "res"
    /\ res.wire = <<[status |-> 201, body |-> "{\"id\":7}", by |-> "routes"]>>
    /\ closure.capturedJsonResponse = [t |-> "obj", k |-> "id", v |-> [t |-> "num", n |-> 7]]

\* C15: over the lifetime of a request the wrapper sets capturedJsonResponse at
\* most once, also when the handler fails after or while emitting a JSON body
\* and the error-handling middleware then answers.
C15_CaptureOnce == hist.captures <= 1

\* C16: no write of capturedJsonResponse follows the read of the 'finish'
\* handler, and the body segment of the line is the body of the res.json call
\* that produced the response the client was sent.
C16_CaptureBeforeRead ==
    /\ ~hist.captureAfterRead
    /\ \A i \in DOMAIN FinishLines :
          FinishLines[i].read.captured # [t |-> "undefined"] =>
              /\ res.wire # <<>>
              /\ Stringify(FinishLines[i].read.captured) = res.wire[1].body

\* C17: once a listen attempt has failed with a code other than EADDRINUSE, the
\* error is the last thing logged ("Server error:"), no timer is scheduled, and
\* from then on no listen call is made and server.close() is not called.
C17_NonConflictFinal ==
    [][(lastError = "EACCES" /\ ~inflight) =>
          /\ timers = 0
          /\ LastOf(startLog) = "Server error:"
          /\ attempts' = attempts
          /\ closeCalls' = closeCalls
          /\ timers' = 0
          /\ inflight' = FALSE]_vars

\* a listen attempt made by the retry timer failed with EACCES
C17_Witness ==
    /\ lastError = "EACCES"
    /\ ~inflight
    /\ attempts = 2
    /\ closeCalls = 1
    /\ timers = 0
    /\ startLog = <<"Port is busy, retrying in 1 second...", "Server error:">>

IsPrefix(s, t) == Len(s) <= Len(t) /\ s = SubSeq(t, 1, Len(s))

\* C18: the layers are installed in the order body parsers and observer, routes
\* (registerRoutes called once), error-handling middleware, then setupVite or
\* serveStatic (one of them, once, chosen by env), and no listen call is made
\* before all of them are installed.
C18_StartupOrder ==
    LET static == IF env = "development" THEN "setupVite" ELSE "serveStatic"
        full == <<"json", "urlencoded", "observer", "routes", "normalizer", static>>
    IN /\ IsPrefix(installed, full)
       /\ calls.registerRoutes = (IF Len(installed) >= 4 THEN 1 ELSE 0)
       /\ calls.setupVite + calls.serveStatic = (IF Len(installed) = 6 THEN 1 ELSE 0)
       /\ calls.setupVite = 1 => env = "development"
       /\ calls.serveStatic = 1 => env # "development"
       /\ attempts > 0 => installed = full

\* the first listen call has been made, in development mode
C18_Witness ==
    /\ attempts = 1
    /\ inflight
    /\ env = "development"
    /\ installed = <<"json", "urlencoded", "observer", "routes", "normalizer",
                     "setupVite">>
    /\ calls = [registerRoutes |-> 1, setupVite |-> 1, serveStatic |-> 0]

ServingCount == Cardinality({i \in DOMAIN startLog : startLog[i] = "serving on port"})

\* C19: "serving on port" is logged exactly once when the server becomes bound,
\* on the first attempt or on a retry; a callback passed to an earlier listen
\* call that failed does not run when a later call succeeds.
C19_ServingOnce ==
    /\ ServingCount <= 1
    /\ listening => ServingCount = 1

\* the lines written for request r
LinesOf(r) == SelectSeq(lines, LAMBDA en : en.of = r)

\* the line request r's own events determine: its method, path and id, the
\* status and body of its own res.json call, its own start and finish times
OwnLine(r) ==
    CapLine(AssembleLine(conns[r].req.method, conns[r].req.path,
                         conns[r].res.statusCode,
                         own[r].finishedAt - own[r].closure.start,
                         own[r].closure.capturedJsonResponse,
                         conns[r].req.requestId))

\* C14: with several requests in flight, in any interleaving, the start time,
\* captured body and correlation id held for a request are the ones its own
\* events wrote, and the line its 'finish' handler logs is built from them
\* alone; identical requests get a line each.
C14_Isolation ==
    \A r \in DOMAIN conns :
        /\ conns[r].pc # "observer" =>
              /\ cells[r] = own[r].closure
              /\ own[r].closure.start <= clock
              /\ own[r].closure.path = conns[r].req.path
              /\ own[r].closure.requestId = conns[r].req.requestId
        /\ conns[r].pc = "routeSent" =>
              /\ Len(conns[r].res.wire) = 1
              /\ conns[r].res.wire[1].body = Stringify(own[r].closure.capturedJsonResponse)
        /\ conns[r].pc # "done" => LinesOf(r) = <<>>
        /\ (conns[r].pc = "done" /\ ~IsApi(conns[r].req.path)) => LinesOf(r) = <<>>
        /\ (conns[r].pc = "done" /\ IsApi(conns[r].req.path)) =>
              /\ Len(LinesOf(r)) = 1
              /\ LinesOf(r)[1].text = OwnLine(r)

\* two identical requests, the second starting and answering while the first
\* is in flight, each logged with its own duration and body
C14_Witness ==
    /\ DOMAIN conns = {1, 2}
    /\ conns[1].req = conns[2].req
    /\ conns[1].pc = "done"
    /\ conns[2].pc = "done"
    /\ lines = <<[of |-> 2, text |-> "GET /api/widgets 201 in 0ms [abc123]"],
                 [of |-> 1, text |-> "GET /api/widgets 200 in 2ms :: {\"id\":7} [abc123]"]>>

====
